---- MODULE Spec2Model ----
(***************************************************************************)
(* The content utilities of the blog: the slugifier, the tag filter        *)
(* (src/utils/getPostsByTag.ts) and the RSS feed builder (the rss.xml      *)
(* endpoint, `get`).  Text is a sequence of one-character strings, so that *)
(* lower-casing, separators, prefixes and substrings are real operations.  *)
(***************************************************************************)
EXTENDS Integers, Sequences, FiniteSets, TLC

VARIABLES
    posts,      \* the collection loaded from ../contents/**/**/*.md
    tag,        \* the tag argument of the last getPostsByTag call
    tagPosts,   \* what the last getPostsByTag call returned
    feed,       \* the options object `get` handed to rss()
    arr,        \* the argument of slufigyAll
    slugs,      \* slufigyAll(arr)
    reslugs,    \* slufigyAll(slugs)
    returned    \* the functions that have returned so far

vars == <<posts, tag, tagPosts, feed, arr, slugs, reslugs, returned>>

-----------------------------------------------------------------------------
(* Bounds *)

MaxPosts == 3   \* posts in the loaded collection
MaxLen == 4     \* characters of an enumerated text
MaxTags == 3    \* entries of an enumerated tag array

-----------------------------------------------------------------------------
(* Text *)

Upper == <<"A","B","C","D","E","F","G","H","I","J","K","L","M",
           "N","O","P","Q","R","S","T","U","V","W","X","Y","Z">>
Lower == <<"a","b","c","d","e","f","g","h","i","j","k","l","m",
           "n","o","p","q","r","s","t","u","v","w","x","y","z">>
Digit == <<"0","1","2","3","4","5","6","7","8","9">>

Range(s) == {s[i] : i \in 1..Len(s)}

\* a JavaScript `undefined` where a text is expected (no character is
\* longer than one code unit, so no text equals it)
Undefined == <<"undefined">>

truthy(v) == v # Undefined /\ v # <<>>

\* the lower-case letter of every upper-case letter
LowerOf == [c \in Range(Upper) |-> Lower[CHOOSE i \in 1..Len(Upper) : Upper[i] = c]]

toLowerCase(c) == IF c \in DOMAIN LowerOf THEN LowerOf[c] ELSE c

Alnum == Range(Upper) \cup Range(Lower) \cup Range(Digit)

\* a letter or a digit; every other character is whitespace or punctuation
IsAlnum(c) == c \in Alnum

Separator == "-"

RECURSIVE dropSeparated(_)
\* the text after its leading run of whitespace and punctuation
dropSeparated(s) ==
    IF s = <<>> \/ IsAlnum(Head(s)) THEN s ELSE dropSeparated(Tail(s))

RECURSIVE collapse(_)
\* lower-case; every run of whitespace and punctuation becomes one separator
collapse(s) ==
    IF s = <<>> THEN <<>>
    ELSE IF IsAlnum(Head(s)) THEN <<toLowerCase(Head(s))>> \o collapse(Tail(s))
    ELSE <<Separator>> \o collapse(dropSeparated(Tail(s)))

trim(s) ==
    LET a == IF s # <<>> /\ Head(s) = Separator THEN Tail(s) ELSE s
    IN  IF a # <<>> /\ a[Len(a)] = Separator THEN SubSeq(a, 1, Len(a) - 1) ELSE a

RECURSIVE replaceEach(_)
replaceEach(s) ==
    IF s = <<>> THEN <<>>
    ELSE <<IF IsAlnum(Head(s)) THEN toLowerCase(Head(s)) ELSE Separator>>
         \o replaceEach(Tail(s))

\* a slugifier that replaces character by character and strips one separator
\* at each end
slugifyStrTrimOnce(str) == trim(replaceEach(str))

slugifyStr(str) == trim(collapse(str))

RECURSIVE slufigyAllUnique(_)
\* an element-wise slugifier that keeps only the first of equal slugs
slufigyAllUnique(a) ==
    IF a = <<>> THEN <<>>
    ELSE LET rest == slufigyAllUnique(SubSeq(a, 1, Len(a) - 1))
             s == slugifyStr(a[Len(a)])
         IN  IF s \in Range(rest) THEN rest ELSE Append(rest, s)

RECURSIVE slufigyAll(_)
slufigyAll(a) ==
    IF a = <<>> THEN <<>>
    ELSE <<slugifyStr(Head(a))>> \o slufigyAll(Tail(a))

\* slugify(frontmatter): the post's slug
slugify(frontmatter) ==
    IF truthy(frontmatter.slug) THEN slugifyStr(frontmatter.slug)
    ELSE slugifyStr(frontmatter.title)

-----------------------------------------------------------------------------
(* Arrays *)

\* Array.prototype.includes on an array of strings
includes(a, x) == \E i \in 1..Len(a) : a[i] = x

\* String.prototype.includes: x occurs in s
stringIncludes(s, x) ==
    \E i \in 0..(Len(s) - Len(x)) : SubSeq(s, i + 1, i + Len(x)) = x

RECURSIVE reverse(_)
reverse(s) == IF s = <<>> THEN <<>> ELSE Append(reverse(Tail(s)), Head(s))

RECURSIVE filter(_, _)
\* Array.prototype.filter with the tag test of getPostsByTag as its callback
filter(ps, t) ==
    IF ps = <<>> THEN <<>>
    ELSE IF includes(slufigyAll(Head(ps).frontmatter.tags), t)
         THEN <<Head(ps)>> \o filter(Tail(ps), t)
         ELSE filter(Tail(ps), t)

RECURSIVE filterPartial(_, _)
filterPartial(ps, t) ==
    IF ps = <<>> THEN <<>>
    ELSE IF \E i \in 1..Len(Head(ps).frontmatter.tags) :
                stringIncludes(slugifyStr(Head(ps).frontmatter.tags[i]), t)
         THEN <<Head(ps)>> \o filterPartial(Tail(ps), t)
         ELSE filterPartial(Tail(ps), t)

RECURSIVE published(_)
\* posts.filter(({ frontmatter }) => !frontmatter.draft)
published(ps) ==
    IF ps = <<>> THEN <<>>
    ELSE IF ~Head(ps).frontmatter.draft THEN <<Head(ps)>> \o published(Tail(ps))
    ELSE published(Tail(ps))

-----------------------------------------------------------------------------
(* The tag filter *)

\* a tag filter that returns the newest match first
getPostsByTagSorted(ps, t) == reverse(filter(ps, t))

\* a tag filter that also hides drafts
getPostsByTagNoDrafts(ps, t) == published(filter(ps, t))

\* a tag filter that matches a tag of which the target is only a part
getPostsByTagPartial(ps, t) == filterPartial(ps, t)

getPostsByTag(ps, t) == filter(ps, t)

-----------------------------------------------------------------------------
(* The feed builder *)

SITE == [website |-> "https://abgier-avraha.github.io/",
         author |-> "Abgier Avraha",
         desc |-> "A blog for React TypeScript and Dotnet developers.",
         title |-> "Producing Value"]

PathPrefix == <<"p","o","s","t","s","/">>

\* the datetime strings `new Date` can read, with the instant each denotes
ValidDatetimes == {"2022-12-1T11:00:00.348Z", "2022-12-01T11:00:00.348Z"}

\* new Date(datetime): an instant, or Invalid Date
NewDate(datetime) ==
    IF datetime \in ValidDatetimes
    THEN [valid |-> TRUE, iso |-> "2022-12-01T11:00:00.348Z"]
    ELSE [valid |-> FALSE, iso |-> "Invalid Date"]

Item(frontmatter) ==
    [link |-> PathPrefix \o slugify(frontmatter),
     title |-> frontmatter.title,
     description |-> frontmatter.description,
     pubDate |-> NewDate(frontmatter.datetime)]

RECURSIVE map(_)
map(ps) ==
    IF ps = <<>> THEN <<>> ELSE <<Item(Head(ps).frontmatter)>> \o map(Tail(ps))

RECURSIVE mapFromFirst(_, _)
\* a map whose callback reads the description of the array's first post
mapFromFirst(ps, first) ==
    IF ps = <<>> THEN <<>>
    ELSE <<[Item(Head(ps).frontmatter) EXCEPT !.description = first.frontmatter.description]>>
         \o mapFromFirst(Tail(ps), first)

rss(items) ==
    [title |-> SITE.title, description |-> SITE.desc, site |-> SITE.website,
     items |-> items]

\* a feed builder that does not filter
getWithDrafts(ps) == rss(map(ps))

\* a feed builder whose items share one description
getSharedDescription(ps) ==
    rss(IF published(ps) = <<>> THEN <<>>
        ELSE mapFromFirst(published(ps), Head(published(ps))))

get(ps) == rss(map(published(ps)))

-----------------------------------------------------------------------------
(* Inputs *)

SeqsUpTo(S, n) == UNION {[1..k -> S] : k \in 0..n}

Guide == <<"G","u","i","d","e">>
guide == <<"g","u","i","d","e">>
gu == <<"g","u">>

A == <<"A">>
B == <<"B">>

Post(title, slug, description, datetime, tags, draft) ==
    [frontmatter |-> [title |-> title, slug |-> slug, description |-> description,
                      datetime |-> datetime, tags |-> tags, draft |-> draft]]

DescriptionOf(title) == <<"o","n"," ">> \o title

\* the posts a content file can yield: every title, tag list and draft flag,
\* and posts with an explicit slug, no description, an unreadable datetime
PostPool ==
    {Post(t, Undefined, DescriptionOf(t), "2022-12-1T11:00:00.348Z", tg, dr) :
        t \in {A, B}, tg \in {<<Guide>>, <<guide>>, <<gu>>}, dr \in BOOLEAN}
    \cup {Post(B, <<"A","!">>, DescriptionOf(B), "2022-12-01T11:00:00.348Z", <<gu, Guide>>, FALSE),
          Post(A, Undefined, Undefined, "2022-12-1T11:00:00.348Z", <<Guide, guide>>, FALSE),
          Post(B, Undefined, DescriptionOf(B), "1st of December", <<>>, FALSE)}

\* the tags a tag page asks for, in slug form
Targets == {guide, gu}

Chars == {"G", "u", " ", "!", "-"}

TagTexts == {Guide, guide, <<"g","u","!">>, <<" ","G","u">>}

-----------------------------------------------------------------------------
(* The build: the collection is loaded once, then the utilities run on it *)

Init ==
    /\ posts \in SeqsUpTo(PostPool, MaxPosts)
    /\ tag = <<>>
    /\ tagPosts = <<>>
    /\ feed = rss(<<>>)
    /\ arr = <<>>
    /\ slugs = <<>>
    /\ reslugs = <<>>
    /\ returned = {}

\* a tag filter whose slugifier writes the slugs back into the posts
GetPostsByTagInPlace(t) ==
    /\ tag' = t
    /\ tagPosts' = getPostsByTag(posts, t)
    /\ posts' = [i \in 1..Len(posts) |->
                    [posts[i] EXCEPT !.frontmatter.tags = slufigyAll(@)]]
    /\ returned' = returned \cup {"getPostsByTag"}
    /\ UNCHANGED <<feed, arr, slugs, reslugs>>

GetPostsByTag(t) ==
    /\ tag' = t
    /\ tagPosts' = getPostsByTag(posts, t)
    /\ returned' = returned \cup {"getPostsByTag"}
    /\ UNCHANGED <<posts, feed, arr, slugs, reslugs>>

Get ==
    /\ feed' = get(posts)
    /\ returned' = returned \cup {"get"}
    /\ UNCHANGED <<posts, tag, tagPosts, arr, slugs, reslugs>>

Next ==
    \/ \E t \in Targets : GetPostsByTag(t)
    \/ Get

Spec == Init /\ [][Next]_vars

-----------------------------------------------------------------------------
(* The slugifier on its own: a tag array is slugified, and slugified again *)

InitSlug ==
    /\ arr \in {<<x>> : x \in SeqsUpTo(Chars, MaxLen)} \cup SeqsUpTo(TagTexts, MaxTags)
    /\ slugs = <<>>
    /\ reslugs = <<>>
    /\ returned = {}
    /\ posts = <<>>
    /\ tag = <<>>
    /\ tagPosts = <<>>
    /\ feed = rss(<<>>)

SlufigyAll ==
    /\ slugs' = slufigyAll(arr)
    /\ returned' = returned \cup {"slufigyAll"}
    /\ UNCHANGED <<posts, tag, tagPosts, feed, arr, reslugs>>

SlugifyTwice ==
    /\ "slufigyAll" \in returned
    /\ reslugs' = slufigyAll(slugs)
    /\ returned' = returned \cup {"slugifyTwice"}
    /\ UNCHANGED <<posts, tag, tagPosts, feed, arr, slugs>>

NextSlug == SlufigyAll \/ SlugifyTwice

SpecSlug == InitSlug /\ [][NextSlug]_vars

-----------------------------------------------------------------------------
(* Properties *)

\* the positions of the posts one of whose slugified tags is exactly t
Matches(ps, t) ==
    {j \in 1..Len(ps) :
        \E k \in 1..Len(ps[j].frontmatter.tags) :
            slugifyStr(ps[j].frontmatter.tags[k]) = t}

\* the positions of the posts that are not drafts
NonDrafts(ps) == {j \in 1..Len(ps) : ~ps[j].frontmatter.draft}

\* the i-th smallest member of a set of positions
Nth(S, i) == CHOOSE j \in S : Cardinality({m \in S : m <= j}) = i

IsProperPart(x, s) == x # s /\ stringIncludes(s, x)

TagsOf(p) == slufigyAll(p.frontmatter.tags)

\* C1: the tag filter returns the posts at exactly the positions whose
\* slugified tags contain the target, in increasing position: an
\* order-preserving subsequence with no matching post left out and no other
\* post let in.
C1_FilterIsExactSubsequence ==
    "getPostsByTag" \in returned =>
        LET M == Matches(posts, tag)
        IN  /\ Len(tagPosts) = Cardinality(M)
            /\ \A i \in 1..Len(tagPosts) : tagPosts[i] = posts[Nth(M, i)]

\* a matching post, a post that does not match, and a different matching post
C1_Witness ==
    /\ "getPostsByTag" \in returned
    /\ Len(posts) = 3
    /\ Matches(posts, tag) = {1, 3}
    /\ posts[1] # posts[3]
    /\ tagPosts = <<posts[1], posts[3]>>

\* C2: the feed items are, in order, the items of the posts at the non-draft
\* positions: as many items as non-draft posts, the i-th item built from the
\* i-th non-draft post.
C2_FeedIsTheNonDrafts ==
    "get" \in returned =>
        LET N == NonDrafts(posts)
        IN  /\ Len(feed.items) = Cardinality(N)
            /\ \A i \in 1..Len(feed.items) :
                   feed.items[i] = Item(posts[Nth(N, i)].frontmatter)

\* a draft between two different published posts
C2_Witness ==
    /\ "get" \in returned
    /\ Len(posts) = 3
    /\ NonDrafts(posts) = {1, 3}
    /\ posts[1].frontmatter.title # posts[3].frontmatter.title
    /\ Len(feed.items) = 2

ExampleA == Post(A, Undefined, DescriptionOf(A), "2022-12-1T11:00:00.348Z", <<Guide>>, FALSE)
ExampleB == Post(B, Undefined, DescriptionOf(B), "2022-12-1T11:00:00.348Z", <<guide>>, TRUE)

\* C3 as stated: on [A, B] the tag filter for "guide" returns [A] alone.
C3_ExampleReturnsOnlyA ==
    ("getPostsByTag" \in returned /\ posts = <<ExampleA, ExampleB>> /\ tag = guide)
        => tagPosts = <<ExampleA>>

\* C3: on [A, B] the tag filter for "guide" returns [A, B]: A is matched
\* although its tag is written "Guide", and the draft B, whose tag matches
\* too, is returned as well.
C3_ExampleReturnsAAndB ==
    ("getPostsByTag" \in returned /\ posts = <<ExampleA, ExampleB>> /\ tag = guide)
        => tagPosts = <<ExampleA, ExampleB>>

C3_Witness ==
    "getPostsByTag" \in returned /\ posts = <<ExampleA, ExampleB>> /\ tag = guide

\* C4: every feed item is a projection of its own post: the link is "posts/"
\* followed by that post's slug, the title and the description are that
\* post's.
C4_ItemProjectsItsPost ==
    "get" \in returned =>
        \A i \in 1..Len(feed.items) :
            LET fm == posts[Nth(NonDrafts(posts), i)].frontmatter
                slug == IF truthy(fm.slug) THEN slugifyStr(fm.slug)
                        ELSE slugifyStr(fm.title)
            IN  /\ feed.items[i].link = <<"p","o","s","t","s","/">> \o slug
                /\ feed.items[i].title = fm.title
                /\ feed.items[i].description = fm.description

\* two published posts with different titles and descriptions, the second
\* with a slug of its own
C4_Witness ==
    /\ "get" \in returned
    /\ Len(feed.items) >= 2
    /\ feed.items[1].title # feed.items[2].title
    /\ feed.items[1].description # feed.items[2].description
    /\ \E j \in NonDrafts(posts) : j > 1 /\ truthy(posts[j].frontmatter.slug)

\* C5: slugifying the slugs again changes nothing.
C5_SlugifyIsIdempotent ==
    "slugifyTwice" \in returned => reslugs = slugs

\* a text with an upper-case letter and a run of punctuation inside it
C5_Witness ==
    /\ "slugifyTwice" \in returned
    /\ Len(arr) = 1
    /\ arr[1] # slugs[1]
    /\ Len(arr[1]) = Len(slugs[1]) + 1
    /\ Separator \in Range(slugs[1])

\* C6: slufigyAll returns one slug per tag, the i-th the slug of the i-th tag.
C6_SlufigyAllIsElementWise ==
    "slufigyAll" \in returned =>
        /\ Len(slugs) = Len(arr)
        /\ \A i \in 1..Len(arr) : slugs[i] = slugifyStr(arr[i])

\* two different tags with the same slug, both kept
C6_Witness ==
    /\ "slufigyAll" \in returned
    /\ Len(arr) >= 2
    /\ arr[1] # arr[2]
    /\ slugs[1] = slugs[2]
    /\ Len(slugs) = Len(arr)

\* C7: a returned post has a slugified tag equal to the target; a post whose
\* slugified tags only contain the target as a part, or are parts of it, is
\* not returned.
C7_MatchIsExactEquality ==
    "getPostsByTag" \in returned =>
        \A j \in 1..Len(posts) :
            (\A k \in 1..Len(TagsOf(posts[j])) : TagsOf(posts[j])[k] # tag)
                => posts[j] \notin Range(tagPosts)

\* the target is a proper part of a tag of a post that is left out, while
\* another post is returned
C7_Witness ==
    /\ "getPostsByTag" \in returned
    /\ tagPosts # <<>>
    /\ \E j \in 1..Len(posts) :
           /\ posts[j] \notin Range(tagPosts)
           /\ \E k \in 1..Len(TagsOf(posts[j])) : IsProperPart(tag, TagsOf(posts[j])[k])

\* C8 as stated: no feed has two items with the same link.
C8_NoTwoItemsShareALink ==
    "get" \in returned =>
        \A i, j \in 1..Len(feed.items) :
            i # j => feed.items[i].link # feed.items[j].link

\* C9 as stated: no feed item lacks its title or description or has an
\* invalid publish date.
C9_NoMalformedItem ==
    "get" \in returned =>
        \A i \in 1..Len(feed.items) :
            /\ feed.items[i].title # Undefined
            /\ feed.items[i].description # Undefined
            /\ feed.items[i].pubDate.valid

\* C10: a call of the tag filter leaves the collection as it was, and returns
\* what the filter gives on the collection as loaded.
C10_FilterIsPure ==
    [][/\ posts' = posts
       /\ ("getPostsByTag" \in returned' => tagPosts' = getPostsByTag(posts, tag'))]_vars

\* the filter has run twice on posts whose tags are not in slug form
C10_Witness ==
    /\ "getPostsByTag" \in returned
    /\ tagPosts # <<>>
    /\ tagPosts # posts
    /\ \E j \in 1..Len(posts) : TagsOf(posts[j]) # posts[j].frontmatter.tags

====
